---------------------------- MODULE Spec2Model ----------------------------
(***************************************************************************)
(* Hybrid risk assessment engine of the contract analysis bot:             *)
(*   analyzer/risk_rules.py  - rule catalog, evaluate_rules,               *)
(*                             aggregate_risk_from_rules                   *)
(*   analyzer/llm_model.py   - ContractAnalyzer: _sanitize_text, _chat,    *)
(*                             _parse_json_response, analyze_clause,       *)
(*                             _calculate_risk_score, _combine_risks,      *)
(*                             _create_fallback_clause_analysis,           *)
(*                             summarize_contract, analyze_contract        *)
(*                                                                         *)
(* Conventions of the model                                                *)
(*  - A text is a record [core, nul, uni]: core names the text with its   *)
(*    NUL and non-ASCII characters removed, nul says whether the text      *)
(*    holds NUL characters, uni whether it holds non-ASCII characters.     *)
(*    _sanitize_text removes the NULs, the ASCII fallback of _chat removes *)
(*    the non-ASCII characters.                                            *)
(*  - A prompt is a record [tpl, arg]: the prompt template and the text    *)
(*    formatted into it; Prefix100 gives its first 100 characters, which   *)
(*    is all the cache key of _chat reads.                                 *)
(*  - Severity weights are in tenths (2.5 is 25, the threshold 5.0 is 50); *)
(*    every catalog weight has one decimal and the float sums of the code  *)
(*    compare with 5.0 as the tenths do.                                   *)
(*  - A JSON value is a record [t, n, s] (see JStr, JNum, JList, JNull,    *)
(*    JAbsent); a Python exception that leaves a function is the result    *)
(*    record's field raised.                                               *)
(***************************************************************************)
EXTENDS Integers, Sequences, FiniteSets, TLC

VARIABLES
    \* ---- ContractAnalyzer instance
    analysis_cache,     \* self._analysis_cache: cache key -> cached reply text
    \* ---- the activation of _chat in progress (its locals)
    chat,               \* [pc, system, user, cache_key, attempt, last_wait]
    \* ---- analyze_contract: arguments, locals, result
    original_clauses,
    anonymised_clauses,
    full_text,
    language,
    pc,                 \* "running" | "returned" | "raised"
    idx,                \* 1-based index of the clause being analysed
    clause_results,
    paths,              \* per clause: how its result was reached
    report,
    \* ---- unit harness for the pure functions of risk_rules / llm_model
    matches,            \* argument of aggregate_risk_from_rules
    rules_risk_out,     \* its result
    risk_a,
    risk_b,
    combined,           \* <<_combine_risks(a, b), _combine_risks(b, a)>>
    score_args,         \* arguments of _calculate_risk_score
    scores,             \* its result for them and with one argument raised
    reply_content,      \* raw_response of _parse_json_response
    fallback_payload,   \* its fallback_data
    parses,             \* its result for the reply as it is and in fences
    clause_inputs,      \* arguments of successive evaluate_rules calls
    findings,           \* their results
    fn_pc,
    \* ---- harness driving _chat directly on one engine instance
    call_args,          \* (system, user) of the _chat call in progress
    got_empty,          \* the call in progress was given an empty reply
    calls,              \* finished _chat calls
    requests,           \* upstream requests of the _chat call observed
    \* ---- harness analysing one contract twice, on a fresh engine each time
    script,             \* per clause text: what the service replies for it
    failing,            \* the clause whose requests all fail in the 2nd run
    run,                \* 0: no replay, 1: reference run, 2: failing run
    baseline            \* clause results of the reference run

vars == <<analysis_cache, chat, original_clauses, anonymised_clauses,
          full_text, language, pc, idx, clause_results, paths, report,
          matches, rules_risk_out, risk_a, risk_b, combined, score_args,
          scores, reply_content, fallback_payload, parses, clause_inputs,
          findings, fn_pc,
          call_args, got_empty, calls, requests, script, failing, run,
          baseline>>

engine_vars == <<analysis_cache, chat>>

contract_vars == <<original_clauses, anonymised_clauses, full_text, language,
                   pc, idx, clause_results, paths, report>>

parser_vars == <<reply_content, fallback_payload, parses>>

matcher_vars == <<clause_inputs, findings>>

unit_vars == <<matches, rules_risk_out, risk_a, risk_b, combined, score_args,
               scores, parser_vars, matcher_vars, fn_pc>>

gateway_vars == <<call_args, got_empty, calls, requests>>

replay_vars == <<script, failing, run, baseline>>

----------------------------------------------------------------------------
(* Bounds of the model *)

MaxClauses == 2
MaxFindings == 3
MaxCalls == 3
MaxCount == 6
MaxChars == 4
MaxInputs == 2

----------------------------------------------------------------------------
(* risk_rules.py *)

RISK_LEVELS == <<"Low", "Medium", "High">>

RiskLevelSet == {RISK_LEVELS[i] : i \in DOMAIN RISK_LEVELS}

\* The catalog, in the order of the RULES dict (patterns are in
\* PatternsFound; a description is given by its first four words).
RULES == <<
    [rule_id |-> "unlimited_liability", risk_level |-> "High", category |-> "Liability", severity_weight |-> 25,
     description |-> "Unlimited or uncapped liability ..."],
    [rule_id |-> "one_sided_indemnity", risk_level |-> "High", category |-> "Liability", severity_weight |-> 20,
     description |-> "Strong unilateral indemnification obligation ..."],
    [rule_id |-> "broad_consequential_damages", risk_level |-> "High", category |-> "Liability", severity_weight |-> 20,
     description |-> "Broad liability for consequential ..."],
    [rule_id |-> "no_termination_right", risk_level |-> "High", category |-> "Termination", severity_weight |-> 25,
     description |-> "Explicitly removes or severely ..."],
    [rule_id |-> "unilateral_termination", risk_level |-> "High", category |-> "Termination", severity_weight |-> 20,
     description |-> "Unilateral termination rights granted ..."],
    [rule_id |-> "perpetual_term", risk_level |-> "High", category |-> "Duration", severity_weight |-> 18,
     description |-> "Perpetual or indefinite contract ..."],
    [rule_id |-> "automatic_renewal", risk_level |-> "Medium", category |-> "Financial", severity_weight |-> 15,
     description |-> "Automatic renewal provision without ..."],
    [rule_id |-> "vague_payment_terms", risk_level |-> "Medium", category |-> "Financial", severity_weight |-> 15,
     description |-> "Unclear, variable, or undefined ..."],
    [rule_id |-> "penalty_interest_high", risk_level |-> "Medium", category |-> "Financial", severity_weight |-> 15,
     description |-> "Excessive interest rates or ..."],
    [rule_id |-> "price_escalation", risk_level |-> "Medium", category |-> "Financial", severity_weight |-> 15,
     description |-> "Unilateral price increase provisions ..."],
    [rule_id |-> "broad_ip_assignment", risk_level |-> "Medium", category |-> "Intellectual Property", severity_weight |-> 18,
     description |-> "Very broad assignment of ..."],
    [rule_id |-> "work_for_hire", risk_level |-> "Medium", category |-> "Intellectual Property", severity_weight |-> 16,
     description |-> "Work-for-hire provision transferring all ..."],
    [rule_id |-> "no_derivative_works", risk_level |-> "Medium", category |-> "Intellectual Property", severity_weight |-> 13,
     description |-> "Restrictive prohibition on creating ..."],
    [rule_id |-> "broad_confidentiality", risk_level |-> "Medium", category |-> "Confidentiality", severity_weight |-> 15,
     description |-> "Overly broad or perpetual ..."],
    [rule_id |-> "broad_nda_scope", risk_level |-> "Medium", category |-> "Confidentiality", severity_weight |-> 14,
     description |-> "Excessively broad definition of ..."],
    [rule_id |-> "ambiguous_terms", risk_level |-> "Medium", category |-> "Performance", severity_weight |-> 12,
     description |-> "Ambiguous or subjective performance ..."],
    [rule_id |-> "open_ended_obligations", risk_level |-> "Medium", category |-> "Performance", severity_weight |-> 15,
     description |-> "Open-ended obligations allowing unilateral ..."],
    [rule_id |-> "no_limitation_period", risk_level |-> "Medium", category |-> "Performance", severity_weight |-> 14,
     description |-> "Obligations that survive indefinitely ..."],
    [rule_id |-> "mandatory_arbitration", risk_level |-> "Medium", category |-> "Dispute Resolution", severity_weight |-> 13,
     description |-> "Mandatory arbitration clause potentially ..."],
    [rule_id |-> "unfavorable_jurisdiction", risk_level |-> "Medium", category |-> "Dispute Resolution", severity_weight |-> 12,
     description |-> "Exclusive jurisdiction clause that ..."],
    [rule_id |-> "limited_warranties", risk_level |-> "Medium", category |-> "Warranties", severity_weight |-> 13,
     description |-> "Broad disclaimer of warranties ..."],
    [rule_id |-> "seller_representation_only", risk_level |-> "Medium", category |-> "Warranties", severity_weight |-> 12,
     description |-> "Limitation on representations potentially ..."],
    [rule_id |-> "unilateral_modification", risk_level |-> "Medium", category |-> "Modifications", severity_weight |-> 15,
     description |-> "Unilateral modification rights allowing ..."] >>

\* The clause texts of the model.  core names the text without its NUL
\* characters; the texts behind the names are
\*   ""                   the empty clause
\*   "Void."              5 characters
\*   "perpetual"          "Perpetual" (9 characters)
\*   "deliver"            "The Supplier shall deliver the goods within
\*                         thirty days of each order."
\*   "deliver_unlimited"  "The Supplier shall deliver the goods and accepts
\*                         unlimited liability for any delay."
\*   "renewal"            "This Agreement shall automatically renew for
\*                         successive one-year terms."
\*   "renewal_fees"       "Prices may increase without notice and this
\*                         Agreement shall automatically renew each year."
\*   "perpetually"        "The licence granted is perpetual<NUL>ly binding
\*                         on the Buyer."; with the NUL removed the text
\*                        reads "perpetually"
\*   "nul_unlimited"      "The Buyer accepts unlimited<NUL> liability.";
\*                        with the NUL removed the text reads
\*                        "unlimited liability"
PlainText(c) == [core |-> c, nul |-> FALSE, uni |-> FALSE]

EmptyText == PlainText("")

ClauseTexts ==
    { PlainText(c) :
        c \in {"Void.", "perpetual", "deliver", "deliver_unlimited",
               "renewal_fees"} }
    \cup { [core |-> "nul_unlimited", nul |-> TRUE, uni |-> FALSE],
           [core |-> "perpetually", nul |-> TRUE, uni |-> FALSE] }

\* pattern.search(text) for every catalog rule: the identifiers of the rules
\* whose pattern is found in the text.  A NUL character between "unlimited"
\* and " liability" keeps the unlimited_liability pattern from matching; a
\* NUL character after "perpetual" is the word boundary that lets the
\* perpetual_term pattern match in "perpetual<NUL>ly".
PatternsFound(text) ==
    CASE text.core = "deliver_unlimited" -> {"unlimited_liability"}
      [] text.core = "perpetual" -> {"perpetual_term"}
      [] text.core = "perpetually" ->
            IF text.nul THEN {"perpetual_term"} ELSE {}
      [] text.core = "renewal" -> {"automatic_renewal"}
      [] text.core = "renewal_fees" -> {"automatic_renewal", "price_escalation"}
      [] text.core = "nul_unlimited" ->
            IF text.nul THEN {} ELSE {"unlimited_liability"}
      [] OTHER -> {}

\* Python values that are no str: None and an int.
PyNone == [py |-> "None"]

PyInt == [py |-> "int"]

\* isinstance(clause_text, str)
IsStr(value) == "core" \in DOMAIN value

\* `not clause_text`: the empty string is falsy.
IsFalsyText(text) == text.core = "" /\ ~text.nul

\* len(clause_text.strip()) < 10
IsShortText(text) == text.core \in {"", "Void.", "perpetual"}

\* str.strip() on the texts of the model: " " names a whitespace-only text.
Strip(text) == IF text.core = " " THEN [text EXCEPT !.core = ""] ELSE text

RuleMatch(rule) ==
    [rule_id |-> rule.rule_id, description |-> rule.description,
     risk_level |-> rule.risk_level, category |-> rule.category,
     severity_weight |-> rule.severity_weight]

\* evaluate_rules leaving the loop at the first rule that matches.
evaluate_rules_first_match(clause_text) ==
    IF ~IsStr(clause_text) THEN <<>>
    ELSE IF IsFalsyText(clause_text) THEN <<>>
    ELSE LET found == PatternsFound(Strip(clause_text))
             Searched(rule) == rule.rule_id \in found
             hits == SelectSeq(RULES, Searched)
         IN  [i \in DOMAIN hits \cap {1} |-> RuleMatch(hits[i])]

evaluate_rules(clause_text) ==
    IF ~IsStr(clause_text) THEN <<>>
    ELSE IF IsFalsyText(clause_text) THEN <<>>
    ELSE LET found == PatternsFound(Strip(clause_text))
             Searched(rule) == rule.rule_id \in found
             hits == SelectSeq(RULES, Searched)
         IN  [i \in DOMAIN hits |-> RuleMatch(hits[i])]

RECURSIVE SumWeights(_)
SumWeights(ms) ==
    IF ms = <<>> THEN 0 ELSE Head(ms).severity_weight + SumWeights(Tail(ms))

IsMedium(m) == m.risk_level = "Medium"

\* aggregate_risk_from_rules escalating on more than 3 Medium findings.
aggregate_risk_from_rules_over3(ms) ==
    IF ms = <<>> THEN "Low"
    ELSE IF \E i \in DOMAIN ms : ms[i].risk_level = "High" THEN "High"
    ELSE LET medium_matches == SelectSeq(ms, IsMedium)
         IN  IF medium_matches = <<>> THEN "Low"
             ELSE LET total_weight == SumWeights(medium_matches)
                  IN  IF Len(medium_matches) > 3 \/ total_weight >= 50
                      THEN "High"
                      ELSE "Medium"

aggregate_risk_from_rules(ms) ==
    IF ms = <<>> THEN "Low"
    ELSE IF \E i \in DOMAIN ms : ms[i].risk_level = "High" THEN "High"
    ELSE LET medium_matches == SelectSeq(ms, IsMedium)
         IN  IF medium_matches = <<>> THEN "Low"
             ELSE LET total_weight == SumWeights(medium_matches)
                  IN  IF Len(medium_matches) >= 3 \/ total_weight >= 50
                      THEN "High"
                      ELSE "Medium"

----------------------------------------------------------------------------
(* llm_model.py: texts, prompts, JSON values *)

\* _sanitize_text: encode/decode as UTF-8 and remove the NUL characters.
sanitize_text(text) == [text EXCEPT !.nul = FALSE]

\* ''.join(c for c in s if ord(c) < 128)
\* A reduction that keeps every character.
AsciiOnlyKeepingAll(text) == text

AsciiOnly(text) == [text EXCEPT !.uni = FALSE]

\* Truthiness of a Python string.
IsEmptyStr(text) == text.core = "" /\ ~text.nul /\ ~text.uni

\* The leading characters of a text that fall within the first 100
\* characters of the prompt it is formatted into: 26 for a clause text (the
\* 74 characters of CLAUSE_ANALYSIS_PROMPT before {clause_text} come first),
\* 24 for a contract text (76 characters of SUMMARY_ANALYSIS_PROMPT).
LeadingChars(text) ==
    CASE text.core \in {"deliver", "deliver_unlimited"} ->
            "The Supplier shall deliver"
      [] OTHER -> text.core

\* A prompt: the template and the text formatted into it.  tpl is
\*   "system"   LEGAL_EXPERT_SYSTEM_PROMPT + lang_instruction + ...
\*   "clause"   CLAUSE_ANALYSIS_PROMPT.format(clause_text=arg)
\*   "summary"  SUMMARY_ANALYSIS_PROMPT.format(contract_text=arg, ...)
Prompt(tpl, arg) == [tpl |-> tpl, arg |-> arg]

\* s[:100].  LEGAL_EXPERT_SYSTEM_PROMPT alone has 1103 characters, so the
\* first 100 characters of a system prompt do not reach lang_instruction.
Prefix100(prompt) ==
    IF prompt.tpl = "system" THEN <<"system", "">>
    ELSE <<prompt.tpl, LeadingChars(prompt.arg)>>

SanitizePrompt(prompt) == Prompt(prompt.tpl, sanitize_text(prompt.arg))

AsciiPrompt(prompt) == Prompt(prompt.tpl, AsciiOnly(prompt.arg))

\* lang_instruction of analyze_clause / summarize_contract, as a text.
LangInstruction(lang) ==
    IF lang = "Hindi" THEN PlainText("write in Hindi")
    ELSE PlainText("write in English")

Languages == {"English", "Hindi"}

\* JSON values as json.loads returns them.
JAbsent == [t |-> "absent", n |-> 0, s |-> ""]
JNull == [t |-> "null", n |-> 0, s |-> ""]
JStr(s) == [t |-> "str", n |-> 0, s |-> s]
JNum(n) == [t |-> "num", n |-> n, s |-> ""]
JList(n) == [t |-> "list", n |-> n, s |-> ""]
\* A string where a list is expected: len() is its number of characters.
JStrOfLen(s, n) == [t |-> "str", n |-> n, s |-> s]

\* The JSON object under "completeness_breakdown": the points of the ten
\* dimensions, in the order parties, scope, payment, duration, termination,
\* liability, ip_rights, disputes, confidentiality, warranties.
JBreakdown(points) == [t |-> "dict", n |-> 0, s |-> "", points |-> points]

\* A JSON object, by the keys the analyzer reads; the two completeness keys
\* are absent unless set (see SummaryFallbackPayload).
JObject(risk_level, confidence_percentage, legal_concerns, missing_protections, explanation, overall_risk) ==
    [kind |-> "dict",
     risk_level |-> risk_level,
     confidence_percentage |-> confidence_percentage,
     legal_concerns |-> legal_concerns,
     missing_protections |-> missing_protections,
     plain_english_explanation |-> explanation,
     overall_risk |-> overall_risk,
     contract_completeness_score |-> JAbsent,
     completeness_breakdown |-> JAbsent]

\* A JSON value that is no object (an array, a number, a string, null).
JNotObject ==
    [JObject(JAbsent, JAbsent, JAbsent, JAbsent, JAbsent, JAbsent)
        EXCEPT !.kind = "list"]

\* dict.get(key, default)
Get(value, default) == IF value.t = "absent" THEN default ELSE value

\* What _parse_json_response could not hand back: the exception that
\* leaves it.
JRaised(exc) ==
    [JObject(JAbsent, JAbsent, JAbsent, JAbsent, JAbsent, JAbsent)
        EXCEPT !.kind = exc]

\* The reply texts of the model, by name:
\*   "low_object"       {"risk_level": "Low", "confidence_percentage": 90,
\*                       "legal_concerns": [], "missing_protections": [],
\*                       "plain_english_explanation": "..."}
\*   "high_object"      {"risk_level": "high", "confidence_percentage": 60,
\*                       "legal_concerns": [2 items],
\*                       "missing_protections": [1 item],
\*                       "plain_english_explanation": "..."}
\*   "high_plain"            {"risk_level": "High"}
\*   "high_null_confidence"  {"risk_level": "High",
\*                            "confidence_percentage": null}
\*   "high_text_confidence"  {"risk_level": "High",
\*                            "confidence_percentage": "high"}
\*   "high_null_concerns"    {"risk_level": "High", "legal_concerns": null}
\*   "high_text_concerns"    {"risk_level": "High", "legal_concerns": "many"}
\*   "critical_object"  {"risk_level": "Critical"}
\*   "null_risk_object" {"risk_level": null}
\*   "prose"            "I cannot assess this clause."   (no JSON in it)
\*   "array"            ["Low"]
\*   "summary_low"      {"overall_risk": "Low"}
\*   "summary_critical" {"overall_risk": "Critical"}
\*   "summary_null"     {"overall_risk": null}
ClauseReplies ==
    {"low_object", "high_object", "critical_object", "null_risk_object",
     "prose"}

SummaryReplies ==
    {"summary_low", "summary_critical", "summary_null", "array", "prose"}

\* The named texts that are one JSON object: they begin with '{' and end
\* with '}'.
HighObjectTexts ==
    {"high_plain", "high_null_confidence", "high_text_confidence",
     "high_null_concerns", "high_text_concerns"}

ObjectTexts ==
    {"low_object", "high_object", "critical_object", "null_risk_object",
     "summary_low", "summary_critical", "summary_null"}
    \cup HighObjectTexts

\* A reply as the parser reads it, character by character.  A backtick
\* ("tick") and a whitespace character (" ", a blank or a newline) are one
\* element each; a run of other characters is one element:
\*   a name of ObjectTexts, "array", "prose"   as above
\*   "json"    the word json
\*   "{"       a word of prose with an opening brace in it
\*   "}"       a word of prose with a closing brace in it
\*   "deep"    "[[[[..." nested deeper than the interpreter's recursion limit
Chars(text) ==
    CASE text.core = "" -> <<>>
      [] OTHER -> <<text.core>>

\* min() and max() of a non-empty set of positions.
MinOf(S) == CHOOSE x \in S : \A y \in S : x <= y

MaxOf(S) == CHOOSE x \in S : \A y \in S : x >= y

\* str.strip() on characters.
StripChars(s) ==
    LET kept == {i \in DOMAIN s : s[i] # " "}
    IN  IF kept = {} THEN <<>> ELSE SubSeq(s, MinOf(kept), MaxOf(kept))

\* str.startswith / str.endswith
StartsWith(s, prefix) ==
    Len(s) >= Len(prefix) /\ SubSeq(s, 1, Len(prefix)) = prefix

EndsWith(s, suffix) ==
    Len(s) >= Len(suffix)
    /\ SubSeq(s, Len(s) - Len(suffix) + 1, Len(s)) = suffix

\* "```" and "```json"
Fence == <<"tick", "tick", "tick">>

FenceJson == Fence \o <<"json">>

\* json.loads on a text without whitespace around it.
JsonDocument(doc) ==
    IF doc # <<>> /\ doc[1] = "deep"
    THEN [exc |-> "RecursionError", value |-> JNotObject]
    ELSE IF Len(doc) # 1
    THEN [exc |-> "JSONDecodeError", value |-> JNotObject]
    ELSE CASE doc[1] = "low_object" ->
                [exc |-> "none",
                 value |-> JObject(JStr("Low"), JNum(90), JList(0), JList(0),
                                   JStr("explanation of low_object"),
                                   JAbsent)]
           [] doc[1] = "high_object" ->
                [exc |-> "none",
                 value |-> JObject(JStr("high"), JNum(60), JList(2), JList(1),
                                   JStr("explanation of high_object"),
                                   JAbsent)]
           [] doc[1] = "high_plain" ->
                [exc |-> "none",
                 value |-> JObject(JStr("High"), JAbsent, JAbsent, JAbsent,
                                   JAbsent, JAbsent)]
           [] doc[1] = "high_null_confidence" ->
                [exc |-> "none",
                 value |-> JObject(JStr("High"), JNull, JAbsent, JAbsent,
                                   JAbsent, JAbsent)]
           [] doc[1] = "high_text_confidence" ->
                [exc |-> "none",
                 value |-> JObject(JStr("High"), JStr("high"), JAbsent,
                                   JAbsent, JAbsent, JAbsent)]
           [] doc[1] = "high_null_concerns" ->
                [exc |-> "none",
                 value |-> JObject(JStr("High"), JAbsent, JNull, JAbsent,
                                   JAbsent, JAbsent)]
           [] doc[1] = "high_text_concerns" ->
                [exc |-> "none",
                 value |-> JObject(JStr("High"), JAbsent,
                                   JStrOfLen("many", 4), JAbsent, JAbsent,
                                   JAbsent)]
           [] doc[1] = "critical_object" ->
                [exc |-> "none",
                 value |-> JObject(JStr("Critical"), JAbsent, JAbsent,
                                   JAbsent, JAbsent, JAbsent)]
           [] doc[1] = "null_risk_object" ->
                [exc |-> "none",
                 value |-> JObject(JNull, JAbsent, JAbsent, JAbsent, JAbsent,
                                   JAbsent)]
           [] doc[1] = "summary_low" ->
                [exc |-> "none",
                 value |-> JObject(JAbsent, JAbsent, JAbsent, JAbsent,
                                   JAbsent, JStr("Low"))]
           [] doc[1] = "summary_critical" ->
                [exc |-> "none",
                 value |-> JObject(JAbsent, JAbsent, JAbsent, JAbsent,
                                   JAbsent, JStr("Critical"))]
           [] doc[1] = "summary_null" ->
                [exc |-> "none",
                 value |-> JObject(JAbsent, JAbsent, JAbsent, JAbsent,
                                   JAbsent, JNull)]
           [] doc[1] = "array" -> [exc |-> "none", value |-> JNotObject]
           [] OTHER -> [exc |-> "JSONDecodeError", value |-> JNotObject]

\* json.loads(cleaned), which ignores whitespace around the document.  exc
\* is "none" when a value is returned, else the exception:
\* json.JSONDecodeError for a text that is no JSON document, RecursionError
\* when the scanner meets nesting deeper than the recursion limit before it
\* meets anything else.
json_loads(s) == JsonDocument(StripChars(s))

\* The removal of the leading fence that takes it for "```" whatever
\* follows it.
RemoveOpeningFenceUntagged(cleaned) ==
    IF StartsWith(cleaned, Fence)
    THEN StripChars(SubSeq(cleaned, 4, Len(cleaned)))
    ELSE cleaned

\* if cleaned.startswith("```"): cleaned[7:].strip() for "```json", else
\* cleaned[3:].strip().  "```json" is four elements here.
RemoveOpeningFence(cleaned) ==
    IF StartsWith(cleaned, FenceJson)
    THEN StripChars(SubSeq(cleaned, 5, Len(cleaned)))
    ELSE IF StartsWith(cleaned, Fence)
    THEN StripChars(SubSeq(cleaned, 4, Len(cleaned)))
    ELSE cleaned

\* if cleaned.endswith("```"): cleaned[:-3].strip()
RemoveClosingFence(cleaned) ==
    IF EndsWith(cleaned, Fence)
    THEN StripChars(SubSeq(cleaned, 1, Len(cleaned) - 3))
    ELSE cleaned

\* if cleaned.startswith("`") and cleaned.endswith("`"):
\* cleaned[1:-1].strip()
RemoveBackticks(cleaned) ==
    IF StartsWith(cleaned, <<"tick">>) /\ EndsWith(cleaned, <<"tick">>)
    THEN StripChars(SubSeq(cleaned, 2, Len(cleaned) - 1))
    ELSE cleaned

\* The markdown fence and backtick removal of _parse_json_response.
RemoveFences(cleaned) ==
    RemoveBackticks(RemoveClosingFence(RemoveOpeningFence(cleaned)))

\* The elements with '{' in them, and those with '}' in them.
HasOpeningBrace(c) == c = "{" \/ c \in ObjectTexts

HasClosingBrace(c) == c = "}" \/ c \in ObjectTexts

\* The salvage that never finds a brace.
BraceSliceNone(cleaned) == [found |-> FALSE, slice |-> cleaned]

\* cleaned[cleaned.find("{") : cleaned.rfind("}") + 1]; found is
\* `start >= 0 and end > start`.
BraceSlice(cleaned) ==
    LET opening == {i \in DOMAIN cleaned : HasOpeningBrace(cleaned[i])}
        closing == {i \in DOMAIN cleaned : HasClosingBrace(cleaned[i])}
    IN  IF opening # {} /\ closing # {} /\ MaxOf(closing) >= MinOf(opening)
        THEN [found |-> TRUE,
              slice |-> SubSeq(cleaned, MinOf(opening), MaxOf(closing))]
        ELSE [found |-> FALSE, slice |-> cleaned]

\* The inner try of _parse_json_response: the parse of the text between the
\* braces, every exception of which is swallowed.
SalvageParse(salvage, fallback_data) ==
    IF ~salvage.found THEN fallback_data
    ELSE IF json_loads(salvage.slice).exc = "none"
    THEN json_loads(salvage.slice).value
    ELSE fallback_data

\* The outer try of _parse_json_response: only json.JSONDecodeError of the
\* strict parse leads to the salvage.
StrictParse(strict, cleaned, fallback_data) ==
    IF strict.exc = "none" THEN strict.value
    ELSE IF strict.exc # "JSONDecodeError" THEN JRaised(strict.exc)
    ELSE SalvageParse(BraceSlice(cleaned), fallback_data)

\* The parse of the reply with its fences removed.
ParseCleaned(cleaned, fallback_data) ==
    StrictParse(json_loads(cleaned), cleaned, fallback_data)

\* _parse_json_response on the characters of the reply.
parse_json_response(raw_response, fallback_data) ==
    IF raw_response = <<>> \/ StripChars(raw_response) = <<>>
    THEN fallback_data
    ELSE ParseCleaned(RemoveFences(StripChars(raw_response)), fallback_data)

\* str.title() on the risk words of the model.
Title(s) ==
    CASE s = "high" -> "High"
      [] s = "HIGH" -> "High"
      [] s = "low" -> "Low"
      [] s = "medium" -> "Medium"
      [] OTHER -> s

order == [k \in {"Low", "Medium", "High"} |->
            CASE k = "Low" -> 0 [] k = "Medium" -> 1 [] k = "High" -> 2]

\* order.get(key, 1)
OrderGet(key) == IF key \in DOMAIN order THEN order[key] ELSE 1

Max2(x, y) == IF x >= y THEN x ELSE y

Min2(x, y) == IF x <= y THEN x ELSE y

\* _combine_risks letting the first verdict win.
combine_risks_first(llm_risk, rules_risk) ==
    LET llm_score == OrderGet(Title(llm_risk))
    IN  CHOOSE k \in DOMAIN order : order[k] = llm_score

combine_risks(llm_risk, rules_risk) ==
    LET llm_score == OrderGet(Title(llm_risk))
        rules_score == OrderGet(Title(rules_risk))
        final_score == Max2(llm_score, rules_score)
    IN  CHOOSE k \in DOMAIN order : order[k] = final_score

\* base_scores.get(risk_level, 50)
BaseScore(risk_level) ==
    CASE risk_level = "Low" -> 25
      [] risk_level = "Medium" -> 50
      [] risk_level = "High" -> 80
      [] OTHER -> 50

\* `confidence < 70` raises TypeError unless confidence is a number;
\* len(concerns) and len(missing) raise TypeError for null and numbers.
ScoreRaises(confidence, concerns, missing) ==
    \/ confidence.t # "num"
    \/ concerns.t \notin {"list", "str"}
    \/ missing.t \notin {"list", "str"}

\* _calculate_risk_score returning its sum as it is.
calculate_risk_score_unclamped(risk_level, confidence, rule_count, concerns, missing) ==
    LET s0 == BaseScore(risk_level)
        s1 == IF confidence.n < 70 THEN s0 + 5 ELSE s0
        s2 == s1 + Min2(rule_count * 3, 15)
        s3 == s2 + Min2(concerns.n * 2, 10)
    IN  s3 + Min2(missing.n * 3, 10)

\* _calculate_risk_score testing `confidence <= 70`.
calculate_risk_score_upto70(risk_level, confidence, rule_count, concerns, missing) ==
    LET s0 == BaseScore(risk_level)
        s1 == IF confidence.n <= 70 THEN s0 + 5 ELSE s0
        s2 == s1 + Min2(rule_count * 3, 15)
        s3 == s2 + Min2(concerns.n * 2, 10)
        s4 == s3 + Min2(missing.n * 3, 10)
    IN  Min2(s4, 100)

calculate_risk_score(risk_level, confidence, rule_count, concerns, missing) ==
    LET s0 == BaseScore(risk_level)
        s1 == IF confidence.n < 70 THEN s0 + 5 ELSE s0
        s2 == s1 + Min2(rule_count * 3, 15)
        s3 == s2 + Min2(concerns.n * 2, 10)
        s4 == s3 + Min2(missing.n * 3, 10)
    IN  Min2(s4, 100)

RuleHits(rule_matches) ==
    [i \in DOMAIN rule_matches |->
        [rule_id |-> rule_matches[i].rule_id,
         risk_level |-> rule_matches[i].risk_level]]

ADVISORY_EXPLANATION == "This clause requires professional legal review"

PAYLOAD_EXPLANATION == "This clause establishes specific contractual obligations"

create_fallback_clause_analysis(clause_index, clause_text, anonymised_text) ==
    LET rule_matches == evaluate_rules(clause_text)
        rules_risk == aggregate_risk_from_rules(rule_matches)
    IN  [clause_index |-> clause_index,
         original_text |-> clause_text,
         anonymised_text |-> anonymised_text,
         plain_english_explanation |-> ADVISORY_EXPLANATION,
         risk_level_llm |-> "Medium",
         risk_level_rules |-> rules_risk,
         risk_level_final |-> IF rules_risk # "Low" THEN rules_risk
                              ELSE "Medium",
         affected_party |-> "Unclear",
         final_risk_score |-> 50,
         rule_hits |-> RuleHits(rule_matches)]

----------------------------------------------------------------------------
(* llm_model.py: the gateway, ContractAnalyzer._chat *)

max_retries == 3

retry_delay == 2

RECURSIVE Pow2(_)
Pow2(k) == IF k = 0 THEN 1 ELSE 2 * Pow2(k - 1)

EmptyCache == [k \in {} |-> EmptyText]

NoPrompt == Prompt("none", EmptyText)

IdleChat ==
    [pc |-> "idle", system |-> NoPrompt, user |-> NoPrompt,
     cache_key |-> <<Prefix100(NoPrompt), Prefix100(NoPrompt)>>,
     attempt |-> 0, last_wait |-> 0]

\* What one client.chat.completions.create call does: it raises exc, or
\* (exc = "none") returns a message whose content is None (has_content
\* FALSE) or the text content.
Raises(exc) == [exc |-> exc, has_content |-> FALSE, content |-> EmptyText]

Replies(text) == [exc |-> "none", has_content |-> TRUE, content |-> text]

NoContent == [exc |-> "none", has_content |-> FALSE, content |-> EmptyText]

NulOnly == [core |-> "", nul |-> TRUE, uni |-> FALSE]

ServiceErrors ==
    {"RateLimitError", "APIConnectionError", "APIError",
     "UnicodeEncodeError", "RuntimeError"}

\* The except clauses of _chat without the final `except Exception`.
ExceptClauseApiOnly(exc) ==
    CASE exc = "RateLimitError" -> "RateLimitError"
      [] exc = "APIConnectionError" -> "APIConnectionError"
      [] exc = "APIError" -> "APIError"
      [] exc \in {"UnicodeEncodeError", "UnicodeDecodeError"} -> "UnicodeError"
      [] OTHER -> "uncaught"

\* The except clause that handles an exception raised in the try block, by
\* the order of the clauses (RateLimitError and APIConnectionError are
\* subclasses of APIError; everything is an Exception).
ExceptClause(exc) ==
    CASE exc = "RateLimitError" -> "RateLimitError"
      [] exc = "APIConnectionError" -> "APIConnectionError"
      [] exc = "APIError" -> "APIError"
      [] exc \in {"UnicodeEncodeError", "UnicodeDecodeError"} -> "UnicodeError"
      [] OTHER -> "Exception"

\* _chat up to its loop: sanitize, build the cache key, look it up.
\* hash((system[:100], user[:100])) is taken as the pair itself.
ChatBegin(system, user, cache) ==
    LET s == SanitizePrompt(system)
        u == SanitizePrompt(user)
        key == <<Prefix100(s), Prefix100(u)>>
    IN  [hit |-> key \in DOMAIN cache,
         ret |-> IF key \in DOMAIN cache THEN cache[key] ELSE EmptyText,
         frame |-> [pc |-> "loop", system |-> s, user |-> u,
                    cache_key |-> key, attempt |-> 0, last_wait |-> 0]]

\* A wait that is the plain delay for every kind of failure.
BackoffWaitFlat(clause, attempt, retries) ==
    IF attempt < retries - 1 THEN retry_delay ELSE 0

\* The wait of an except clause after failed attempt `attempt`.
BackoffWait(clause, attempt, retries) ==
    IF attempt < retries - 1
    THEN IF clause = "RateLimitError" THEN retry_delay * Pow2(attempt)
         ELSE retry_delay
    ELSE 0

\* `for attempt in range(retries)` running one iteration too many.
RangeExhaustedLate(attempt, retries) == attempt > retries

\* `for attempt in range(retries)` is over once `attempt` iterations ran.
RangeExhausted(attempt, retries) == attempt >= retries

\* A store that forgets the reply.
CacheStoreDropped(cache, cache_key, content) == cache

\* self._analysis_cache[cache_key] = content
CacheStore(cache, cache_key, content) == (cache_key :> content) @@ cache

\* One iteration of `for attempt in range(retries)` with what the service
\* does in it, and the loop's exit after the last iteration.
\*   done    the call is over (a return, or an exception leaving _chat)
\*   raised  an exception leaves _chat
\*   replied the attempt succeeded: its content is cached and returned
ChatAttempt(frame, cache, outcome, retries) ==
    LET exc == IF outcome.exc # "none" THEN outcome.exc
               ELSE IF ~outcome.has_content
                       \/ IsEmptyStr(outcome.content)
                       \/ IsEmptyStr(Strip(outcome.content))
                    THEN "ValueError"
                    ELSE "none"
        clause == ExceptClause(exc)
        content == sanitize_text(Strip(outcome.content))
        stripped == IF clause = "UnicodeError"
                    THEN [frame EXCEPT !.system = AsciiPrompt(frame.system),
                                       !.user = AsciiPrompt(frame.user)]
                    ELSE frame
        next == [stripped EXCEPT
                    !.attempt = frame.attempt + 1,
                    !.last_wait = BackoffWait(clause, frame.attempt, retries)]
    IN  IF exc = "none"
        THEN [done |-> TRUE, raised |-> FALSE, replied |-> TRUE,
              ret |-> content,
              frame |-> [frame EXCEPT !.attempt = frame.attempt + 1],
              cache |-> CacheStore(cache, frame.cache_key, content)]
        ELSE IF clause = "uncaught"
        THEN [done |-> TRUE, raised |-> TRUE, replied |-> FALSE,
              ret |-> EmptyText, frame |-> next, cache |-> cache]
        ELSE [done |-> RangeExhausted(next.attempt, retries), raised |-> FALSE,
              replied |-> FALSE, ret |-> EmptyText, frame |-> next,
              cache |-> cache]

----------------------------------------------------------------------------
(* llm_model.py: analyze_clause, summarize_contract, analyze_contract *)

\* system_msg and user_prompt of analyze_clause
ClauseSystem(lang) == Prompt("system", LangInstruction(lang))

ClauseUser(clause_text) == Prompt("clause", clause_text)

\* The `fallback` dict of analyze_clause.
ClauseFallbackPayload ==
    JObject(JStr("Medium"), JNum(75), JList(2), JList(2),
            JStr(PAYLOAD_EXPLANATION), JAbsent)

\* analyze_clause from the return of _chat on: raw is what _chat returned,
\* clause_text the sanitized text.  raised: an exception leaves
\* analyze_clause (parsed.get on a non-dict, .title() on a non-string,
\* a TypeError in _calculate_risk_score).
AnalyzeClauseTail(clause_text, clause_index, anonymised_text, raw) ==
    LET rule_matches == evaluate_rules(clause_text)
        rules_risk == aggregate_risk_from_rules(rule_matches)
        fallback == create_fallback_clause_analysis(clause_index, clause_text,
                                                    anonymised_text)
        parsed == parse_json_response(Chars(raw), ClauseFallbackPayload)
        risk_field == Get(parsed.risk_level, JStr("Medium"))
        llm_risk == Title(risk_field.s)
        final_risk == combine_risks(llm_risk, rules_risk)
        confidence == Get(parsed.confidence_percentage, JNum(75))
        concerns == Get(parsed.legal_concerns, JList(0))
        missing == Get(parsed.missing_protections, JList(0))
    IN  IF IsEmptyStr(raw)
        THEN [raised |-> FALSE, result |-> fallback]
        ELSE IF parsed.kind # "dict" \/ risk_field.t # "str"
                \/ ScoreRaises(confidence, concerns, missing)
        THEN [raised |-> TRUE, result |-> fallback]
        ELSE [raised |-> FALSE,
              result |->
                [clause_index |-> clause_index,
                 original_text |-> clause_text,
                 anonymised_text |-> anonymised_text,
                 plain_english_explanation |->
                    Get(parsed.plain_english_explanation,
                        JStr(PAYLOAD_EXPLANATION)).s,
                 risk_level_llm |-> llm_risk,
                 risk_level_rules |-> rules_risk,
                 risk_level_final |-> final_risk,
                 affected_party |-> "Unclear",
                 final_risk_score |->
                    calculate_risk_score(final_risk, confidence,
                                         Len(rule_matches), concerns, missing),
                 rule_hits |-> RuleHits(rule_matches)]]

\* The guard of analyze_clause: `not clause_text or len(strip) < 10`.
\* The guard without its length test.
TooShortEmptyOnly(clause_text) == IsFalsyText(clause_text)

TooShort(clause_text) == IsFalsyText(clause_text) \/ IsShortText(clause_text)

\* The body of `for idx, (orig, anon) in enumerate(zip(...), start=1)`:
\* the result appended for a clause whose analyze_clause call ended as r.
\* The loop body numbering its fallback from 0.
LoopResultFromZero(r, clause_index, orig, anon) ==
    IF r.raised
    THEN create_fallback_clause_analysis(clause_index - 1, orig, anon)
    ELSE r.result

LoopResult(r, clause_index, orig, anon) ==
    IF r.raised THEN create_fallback_clause_analysis(clause_index, orig, anon)
    ELSE r.result

RECURSIVE AllRuleMatches(_)
AllRuleMatches(clauses) ==
    IF clauses = <<>> THEN <<>>
    ELSE evaluate_rules(Head(clauses)) \o AllRuleMatches(Tail(clauses))

SummarySystem(lang) == Prompt("system", LangInstruction(lang))

\* text_sample is full_text[:12000]; the texts of the model are shorter.
SummaryUser(text) == Prompt("summary", sanitize_text(text))

\* The `fallback` dict of summarize_contract.
SummaryFallbackPayload(overall_rules_risk) ==
    [JObject(JAbsent, JAbsent, JAbsent, JAbsent, JAbsent,
             JStr(overall_rules_risk))
        EXCEPT !.contract_completeness_score = JNum(65),
               !.completeness_breakdown =
                    JBreakdown(<<8, 7, 6, 7, 6, 6, 5, 6, 4, 5>>)]

\* summarize_contract from the return of _chat on.  from_fallback and
\* built_from_breakdown are no fields of ContractSummary: they record the
\* payload the summary was built from.
SummarizeTail(overall_rules_risk, raw) ==
    LET fallback == SummaryFallbackPayload(overall_rules_risk)
        parsed == IF IsEmptyStr(raw) THEN fallback
                  ELSE parse_json_response(Chars(raw), fallback)
        risk_field == Get(parsed.overall_risk, JStr("Medium"))
        llm_overall == Title(risk_field.s)
    IN  IF parsed.kind # "dict" \/ risk_field.t # "str"
        THEN [raised |-> TRUE,
              result |-> [overall_risk_llm |-> "", overall_risk_rules |-> "",
                          overall_risk_final |-> "",
                          contract_completeness_score |-> JAbsent,
                          from_fallback |-> FALSE,
                          built_from_breakdown |-> JAbsent]]
        ELSE [raised |-> FALSE,
              result |->
                [overall_risk_llm |-> llm_overall,
                 overall_risk_rules |-> Title(overall_rules_risk),
                 overall_risk_final |->
                    combine_risks(llm_overall, overall_rules_risk),
                 contract_completeness_score |->
                    Get(parsed.contract_completeness_score, JNum(65)),
                 from_fallback |-> parsed = fallback,
                 built_from_breakdown |-> parsed.completeness_breakdown]]

NoReport == [summary |-> <<>>, clauses |-> <<>>, anonymisation_map |-> <<>>]

\* zip(original_clauses, anonymised_clauses) stops at the shorter list.
Pairs == Min2(Len(original_clauses), Len(anonymised_clauses))

InClauses == pc = "running" /\ idx <= Pairs

InSummary == pc = "running" /\ idx > Pairs

AppendClause(r, via) ==
    /\ clause_results' =
          Append(clause_results,
                 LoopResult(r, idx, original_clauses[idx],
                            anonymised_clauses[idx]))
    /\ paths' = Append(paths, [via |-> via, raised |-> r.raised])
    /\ idx' = idx + 1
    /\ UNCHANGED <<original_clauses, anonymised_clauses, full_text, language,
                   pc, report>>

\* analyze_clause returns the short-clause fallback: no gateway call.
ClauseShort ==
    /\ InClauses
    /\ TooShort(original_clauses[idx])
    /\ AppendClause(
          [raised |-> FALSE,
           result |-> create_fallback_clause_analysis(
                          idx, original_clauses[idx], anonymised_clauses[idx])],
          "short")
    /\ UNCHANGED <<engine_vars, unit_vars, gateway_vars, replay_vars>>

\* analyze_clause whose _chat call is answered from the cache.
ClauseCached ==
    /\ InClauses
    /\ ~TooShort(original_clauses[idx])
    /\ chat.pc = "idle"
    /\ LET text == sanitize_text(original_clauses[idx])
           begin == ChatBegin(ClauseSystem(language), ClauseUser(text),
                              analysis_cache)
       IN  /\ begin.hit
           /\ AppendClause(AnalyzeClauseTail(text, idx,
                                             anonymised_clauses[idx],
                                             begin.ret),
                           "cached")
    /\ UNCHANGED <<engine_vars, unit_vars, gateway_vars, replay_vars>>

\* One upstream request of the _chat call of analyze_clause, and, when it
\* ends the call, the rest of analyze_clause and of the loop body.
ClauseRequest(outcome) ==
    /\ InClauses
    /\ ~TooShort(original_clauses[idx])
    /\ LET text == sanitize_text(original_clauses[idx])
           begin == ChatBegin(ClauseSystem(language), ClauseUser(text),
                              analysis_cache)
           frame == IF chat.pc = "idle" THEN begin.frame ELSE chat
           it == ChatAttempt(frame, analysis_cache, outcome, max_retries)
           tail == AnalyzeClauseTail(text, idx, anonymised_clauses[idx],
                                     it.ret)
           fallback == create_fallback_clause_analysis(
                           idx, text, anonymised_clauses[idx])
       IN  /\ chat.pc = "idle" => ~begin.hit
           /\ analysis_cache' = it.cache
           /\ IF it.done
              THEN /\ chat' = IdleChat
                   /\ AppendClause(
                         IF it.raised
                         THEN [raised |-> FALSE, result |-> fallback]
                         ELSE tail,
                         IF it.replied THEN "replied" ELSE "exhausted")
              ELSE /\ chat' = it.frame
                   /\ UNCHANGED contract_vars
    /\ UNCHANGED <<unit_vars, gateway_vars, replay_vars>>

\* The document-wide rule verdict taken as the highest per-clause verdict.
OverallRulesRiskOfWorstClause ==
    LET verdict(i) ==
            aggregate_risk_from_rules(evaluate_rules(original_clauses[i]))
    IN  IF \E i \in DOMAIN original_clauses : verdict(i) = "High" THEN "High"
        ELSE IF \E i \in DOMAIN original_clauses : verdict(i) = "Medium"
        THEN "Medium"
        ELSE "Low"

OverallRulesRisk == aggregate_risk_from_rules(AllRuleMatches(original_clauses))

FinishContract(r) ==
    /\ IF r.raised
       THEN pc' = "raised" /\ report' = report
       ELSE /\ pc' = "returned"
            /\ report' = [summary |-> r.result, clauses |-> clause_results,
                          anonymisation_map |-> <<>>]
    /\ UNCHANGED <<original_clauses, anonymised_clauses, full_text, language,
                   idx, clause_results, paths>>

\* One upstream request of the _chat call of summarize_contract, and, when
\* it ends the call, the rest of summarize_contract and of analyze_contract.
\* (On an engine that has analysed one contract the summary prompt is never
\* cached: the cached keys are those of clause prompts, whose first 100
\* characters are those of another template.)
SummaryRequest(outcome) ==
    /\ InSummary
    /\ LET begin == ChatBegin(SummarySystem(language), SummaryUser(full_text),
                              analysis_cache)
           frame == IF chat.pc = "idle" THEN begin.frame ELSE chat
           it == ChatAttempt(frame, analysis_cache, outcome, max_retries)
           fallback == SummarizeTail(OverallRulesRisk, EmptyText)
       IN  /\ chat.pc = "idle" => ~begin.hit
           /\ analysis_cache' = it.cache
           /\ IF it.done
              THEN /\ chat' = IdleChat
                   /\ FinishContract(
                         IF it.raised THEN fallback
                         ELSE SummarizeTail(OverallRulesRisk, it.ret))
              ELSE /\ chat' = it.frame
                   /\ UNCHANGED contract_vars
    /\ UNCHANGED <<unit_vars, gateway_vars, replay_vars>>

----------------------------------------------------------------------------
(* The service and the inputs *)

EmptyContents == {NoContent, Replies(PlainText("")), Replies(PlainText(" "))}

ClauseOutcomes ==
    {Raises(e) : e \in ServiceErrors} \cup EmptyContents
    \cup {Replies(PlainText(r)) : r \in ClauseReplies}

SummaryOutcomes ==
    {Raises(e) : e \in ServiceErrors} \cup EmptyContents
    \cup {Replies(PlainText(r)) : r \in SummaryReplies}

RECURSIVE SeqsUpTo(_, _)
SeqsUpTo(S, n) ==
    IF n = 0 THEN {<<>>}
    ELSE LET shorter == SeqsUpTo(S, n - 1)
         IN  shorter \cup {Append(q, x) : q \in shorter, x \in S}

Contracts == SeqsUpTo(ClauseTexts, MaxClauses)

\* The de-identified clause at position i, an opaque text.
Anonymised(i) == [anon_of |-> i]

\* The de-identified clause list of a contract of n clauses: order-aligned,
\* or one clause short (zip then pairs the shorter list).
AnonymisedLists(n) ==
    {[i \in 1..m |-> Anonymised(i)] : m \in {n} \cup {k \in {n - 1} : k >= 0}}

\* The anonymisation record preprocess_contract returns with the clause
\* lists (app.py binds it to `anon`): identifier -> redacted entity, as a
\* sequence of pairs.  The two delivery clauses name the supplier company.
EntityMap(clauses) ==
    IF \E i \in DOMAIN clauses :
            clauses[i].core \in {"deliver", "deliver_unlimited"}
    THEN << <<"ORG_1", "Acme Ltd">> >>
    ELSE <<>>

FullTexts == {PlainText("contract text")}

----------------------------------------------------------------------------
(* Specification of one analyze_contract call on a fresh ContractAnalyzer *)

EngineInit ==
    /\ analysis_cache = EmptyCache
    /\ chat = IdleChat

NoScoreArgs ==
    [risk_level |-> "Low", confidence |-> 0, rule_count |-> 0,
     concerns |-> 0, missing |-> 0]

NoScores == <<>>

ParserIdle ==
    /\ reply_content = <<>>
    /\ fallback_payload = JAbsent
    /\ parses = <<>>

MatcherIdle ==
    /\ clause_inputs = <<>>
    /\ findings = <<>>

UnitIdle ==
    /\ ParserIdle
    /\ MatcherIdle
    /\ matches = <<>>
    /\ rules_risk_out = "none"
    /\ risk_a = "Low"
    /\ risk_b = "Low"
    /\ combined = <<"none", "none">>
    /\ score_args = NoScoreArgs
    /\ scores = NoScores
    /\ fn_pc = "idle"

GatewayIdle ==
    /\ call_args = <<NoPrompt, NoPrompt>>
    /\ got_empty = FALSE
    /\ calls = <<>>
    /\ requests = <<>>

ReplayIdle ==
    /\ script = <<>>
    /\ failing = 0
    /\ run = 0
    /\ baseline = <<>>

ContractIdle ==
    /\ original_clauses = <<>>
    /\ anonymised_clauses = <<>>
    /\ full_text = EmptyText
    /\ language = "English"
    /\ pc = "idle"
    /\ idx = 1
    /\ clause_results = <<>>
    /\ paths = <<>>
    /\ report = NoReport

Init ==
    /\ EngineInit
    /\ original_clauses \in Contracts
    /\ anonymised_clauses \in AnonymisedLists(Len(original_clauses))
    /\ full_text \in FullTexts
    /\ language = "English"
    /\ pc = "running"
    /\ idx = 1
    /\ clause_results = <<>>
    /\ paths = <<>>
    /\ report = NoReport
    /\ UnitIdle
    /\ GatewayIdle
    /\ ReplayIdle

Next ==
    \/ ClauseShort
    \/ ClauseCached
    \/ \E outcome \in ClauseOutcomes : ClauseRequest(outcome)
    \/ \E outcome \in SummaryOutcomes : SummaryRequest(outcome)

Spec == Init /\ [][Next]_vars

----------------------------------------------------------------------------
(* Specification of one analyze_contract call whose clause replies are     *)
(* JSON objects with risk_level "High" and other fields of any type        *)

FieldTexts ==
    {PlainText(c) : c \in {"deliver", "deliver_unlimited", "renewal_fees"}}

FieldContracts == SeqsUpTo(FieldTexts, MaxClauses) \ {<<>>}

FieldOutcomes ==
    {Raises("APIError")} \cup {Replies(PlainText(r)) : r \in HighObjectTexts}

FieldSummaryOutcomes ==
    {Raises("APIError")}
    \cup {Replies(PlainText(r)) : r \in {"summary_low", "summary_null"}}

InitFields ==
    /\ EngineInit
    /\ original_clauses \in FieldContracts
    /\ anonymised_clauses = original_clauses
    /\ full_text \in FullTexts
    /\ language = "English"
    /\ pc = "running"
    /\ idx = 1
    /\ clause_results = <<>>
    /\ paths = <<>>
    /\ report = NoReport
    /\ UnitIdle
    /\ GatewayIdle
    /\ ReplayIdle

NextFields ==
    \/ ClauseCached
    \/ \E outcome \in FieldOutcomes : ClauseRequest(outcome)
    \/ \E outcome \in FieldSummaryOutcomes : SummaryRequest(outcome)

SpecFields == InitFields /\ [][NextFields]_vars

----------------------------------------------------------------------------
(* Specification applying the pure functions of the risk aggregator *)

FindingPool ==
    {[rule_id |-> "finding", description |-> "a finding", risk_level |-> r,
      category |-> "General", severity_weight |-> w] :
        r \in RiskLevelSet, w \in {12, 25}}

InitRules ==
    /\ EngineInit
    /\ ContractIdle
    /\ GatewayIdle
    /\ ReplayIdle
    /\ ParserIdle
    /\ MatcherIdle
    /\ matches \in SeqsUpTo(FindingPool, MaxFindings)
    /\ rules_risk_out = "none"
    /\ risk_a \in RiskLevelSet
    /\ risk_b \in RiskLevelSet
    /\ combined = <<"none", "none">>
    /\ score_args = NoScoreArgs
    /\ scores = NoScores
    /\ fn_pc = "start"

CallAggregate ==
    /\ fn_pc = "start"
    /\ rules_risk_out' = aggregate_risk_from_rules(matches)
    /\ fn_pc' = "aggregated"
    /\ UNCHANGED <<matches, risk_a, risk_b, combined, score_args, scores,
                   parser_vars, matcher_vars, engine_vars,
                   contract_vars, gateway_vars, replay_vars>>

CallCombine ==
    /\ fn_pc = "aggregated"
    /\ combined' = <<combine_risks(risk_a, risk_b),
                     combine_risks(risk_b, risk_a)>>
    /\ fn_pc' = "combined"
    /\ UNCHANGED <<matches, rules_risk_out, risk_a, risk_b, score_args,
                   scores, parser_vars, matcher_vars, engine_vars,
                   contract_vars, gateway_vars, replay_vars>>

NextRules == CallAggregate \/ CallCombine

SpecRules == InitRules /\ [][NextRules]_vars

----------------------------------------------------------------------------
(* Specification of _chat calls made directly on one ContractAnalyzer *)

GatewayTexts ==
    {PlainText("deliver"), PlainText("deliver_unlimited"),
     [core |-> "renewal", nul |-> TRUE, uni |-> TRUE]}

GatewayArgs == {<<ClauseSystem("English"), ClauseUser(t)>> : t \in GatewayTexts}

GatewayOutcomes ==
    {Raises(e) : e \in ServiceErrors} \cup EmptyContents
    \cup {Replies(NulOnly)}
    \cup {Replies(PlainText(r)) : r \in {"low_object", "high_object"}}

InitChat ==
    /\ EngineInit
    /\ ContractIdle
    /\ UnitIdle
    /\ GatewayIdle
    /\ ReplayIdle

\* The service gave no text: content is None, empty or whitespace only.
IsEmptyReply(outcome) ==
    /\ outcome.exc = "none"
    /\ \/ ~outcome.has_content
       \/ IsEmptyStr(outcome.content)
       \/ IsEmptyStr(Strip(outcome.content))

\* A finished _chat call: its arguments, what it returned, the number of
\* upstream requests it made, whether it was answered from the cache (hit),
\* whether an exception left it (raised), whether its last request was
\* answered with a text (replied) and whether one of its requests was
\* answered with an empty reply (empty_reply).
CallRecord(args, ret, attempts, hit, raised, replied, empty_reply) ==
    [system |-> args[1], user |-> args[2], ret |-> ret,
     attempts |-> attempts, hit |-> hit, raised |-> raised,
     replied |-> replied, empty_reply |-> empty_reply]

\* A _chat call answered from the cache.
GatewayCached(args) ==
    /\ chat.pc = "idle"
    /\ Len(calls) < MaxCalls
    /\ LET begin == ChatBegin(args[1], args[2], analysis_cache)
       IN  /\ begin.hit
           /\ calls' = Append(calls,
                              CallRecord(args, begin.ret, 0, TRUE, FALSE,
                                         FALSE, FALSE))
    /\ UNCHANGED <<engine_vars, call_args, got_empty, requests,
                   contract_vars, unit_vars, replay_vars>>

\* One upstream request of a _chat call: the first one of a new call with
\* arguments args, or the next one of the call in progress.
GatewayRequest(args, outcome) ==
    /\ IF chat.pc = "idle"
       THEN Len(calls) < MaxCalls
            /\ ~ChatBegin(args[1], args[2], analysis_cache).hit
       ELSE args = call_args
    /\ LET frame == IF chat.pc = "idle"
                    THEN ChatBegin(args[1], args[2], analysis_cache).frame
                    ELSE chat
           it == ChatAttempt(frame, analysis_cache, outcome, max_retries)
           empty == got_empty \/ IsEmptyReply(outcome)
       IN  /\ analysis_cache' = it.cache
           /\ IF it.done
              THEN /\ chat' = IdleChat
                   /\ call_args' = <<NoPrompt, NoPrompt>>
                   /\ got_empty' = FALSE
                   /\ calls' = Append(calls,
                                      CallRecord(args, it.ret,
                                                 it.frame.attempt, FALSE,
                                                 it.raised, it.replied,
                                                 empty))
              ELSE /\ chat' = it.frame
                   /\ call_args' = args
                   /\ got_empty' = empty
                   /\ calls' = calls
    /\ UNCHANGED <<requests, contract_vars, unit_vars, replay_vars>>

NextChat ==
    \/ \E args \in GatewayArgs : GatewayCached(args)
    \/ \E args \in GatewayArgs, outcome \in GatewayOutcomes :
          GatewayRequest(args, outcome)

SpecChat == InitChat /\ [][NextChat]_vars

----------------------------------------------------------------------------
(* Specification of analyses of one text in either language on one         *)
(* ContractAnalyzer: the _chat calls of analyze_clause and of              *)
(* summarize_contract with the prompts they build                          *)

LanguageArgs ==
    {<<ClauseSystem(l), ClauseUser(PlainText("deliver"))>> : l \in Languages}
    \cup {<<SummarySystem(l), SummaryUser(PlainText("deliver"))>> :
             l \in Languages}

LanguageOutcomes ==
    {Raises("APIError")}
    \cup {Replies(PlainText(r)) : r \in {"low_object", "high_object"}}

NextLanguages ==
    \/ \E args \in LanguageArgs : GatewayCached(args)
    \/ \E args \in LanguageArgs, outcome \in LanguageOutcomes :
          GatewayRequest(args, outcome)

SpecLanguages == InitChat /\ [][NextLanguages]_vars

----------------------------------------------------------------------------
(* Specification of one _chat call, observed request by request *)

\* The exception raised in the try block of an attempt ("none": the attempt
\* succeeds); an empty reply raises ValueError.
RequestError(outcome) ==
    IF outcome.exc # "none" THEN outcome.exc
    ELSE IF IsEmptyReply(outcome) THEN "ValueError"
    ELSE "none"

\* One upstream request as the client sees it: the 0-based attempt, the two
\* messages sent, the exception of the attempt and the time.sleep that
\* follows it (0: none).
RequestRecord(frame, exc, wait) ==
    [attempt |-> frame.attempt, system |-> frame.system, user |-> frame.user,
     exc |-> exc, wait |-> wait]

InitRequests ==
    /\ EngineInit
    /\ ContractIdle
    /\ UnitIdle
    /\ GatewayIdle
    /\ ReplayIdle

\* One upstream request of the call: the first one of the call with
\* arguments args on the fresh engine, or the next one of that call.
CallRequest(args, outcome) ==
    /\ chat.pc \in {"idle", "loop"}
    /\ chat.pc = "loop" => args = call_args
    /\ LET frame == IF chat.pc = "idle"
                    THEN ChatBegin(args[1], args[2], analysis_cache).frame
                    ELSE chat
           it == ChatAttempt(frame, analysis_cache, outcome, max_retries)
       IN  /\ analysis_cache' = it.cache
           /\ chat' = IF it.done THEN [it.frame EXCEPT !.pc = "returned"]
                      ELSE it.frame
           /\ requests' = Append(requests,
                                 RequestRecord(frame, RequestError(outcome),
                                               IF it.replied THEN 0
                                               ELSE it.frame.last_wait))
    /\ call_args' = args
    /\ UNCHANGED <<got_empty, calls, contract_vars, unit_vars, replay_vars>>

NextRequests ==
    \E args \in GatewayArgs, outcome \in GatewayOutcomes :
       CallRequest(args, outcome)

SpecRequests == InitRequests /\ [][NextRequests]_vars

----------------------------------------------------------------------------
(* Specification analysing one contract twice, each time on a fresh         *)
(* ContractAnalyzer (app.py builds one per analysis): first with the        *)
(* service answering every request, then with every request made for the    *)
(* clause `failing` failing and the service otherwise behaving as before;   *)
(* the service gives the same reply to requests for the same clause text    *)

ReplayReplies == {Replies(PlainText(r)) : r \in {"low_object", "high_object"}}

InitReplay ==
    /\ EngineInit
    /\ original_clauses \in Contracts
    /\ anonymised_clauses =
          [i \in 1..Len(original_clauses) |-> Anonymised(i)]
    /\ full_text \in FullTexts
    /\ language = "English"
    /\ pc = "running"
    /\ idx = 1
    /\ clause_results = <<>>
    /\ paths = <<>>
    /\ report = NoReport
    /\ script \in [{original_clauses[i] : i \in DOMAIN original_clauses}
                        -> ReplayReplies]
    /\ failing \in 1..Len(original_clauses)
    /\ run = 1
    /\ baseline = <<>>
    /\ UnitIdle
    /\ GatewayIdle

\* What the service does with a request made for the clause being analysed:
\* its reply is a function of the clause's text.
ScriptedOutcome ==
    IF run = 2 /\ idx = failing THEN Raises("APIError")
    ELSE script[original_clauses[idx]]

ReplayClauseRequest == InClauses /\ ClauseRequest(ScriptedOutcome)

ReplaySummaryRequest == SummaryRequest(Replies(PlainText("summary_low")))

\* The second analysis starts: a new ContractAnalyzer, the same contract.
ReplayRestart ==
    /\ run = 1
    /\ pc = "returned"
    /\ baseline' = clause_results
    /\ run' = 2
    /\ analysis_cache' = EmptyCache
    /\ chat' = IdleChat
    /\ pc' = "running"
    /\ idx' = 1
    /\ clause_results' = <<>>
    /\ paths' = <<>>
    /\ report' = NoReport
    /\ UNCHANGED <<original_clauses, anonymised_clauses, full_text, language,
                   script, failing, unit_vars, gateway_vars>>

NextReplay ==
    \/ ClauseShort
    \/ ClauseCached
    \/ ReplayClauseRequest
    \/ ReplaySummaryRequest
    \/ ReplayRestart

SpecReplay == InitReplay /\ [][NextReplay]_vars

----------------------------------------------------------------------------
(* Specification applying _calculate_risk_score *)

\* Values of confidence_percentage around the threshold of 70.
Confidences == {0, 69, 70, 71, 100}

ScoreArgs ==
    [risk_level : RiskLevelSet, confidence : Confidences,
     rule_count : 0..MaxCount, concerns : 0..MaxCount, missing : 0..MaxCount]

\* self._calculate_risk_score(final_risk, confidence, len(rule_matches),
\*                            legal_concerns, missing_protections)
ScoreOf(a) ==
    calculate_risk_score(a.risk_level, JNum(a.confidence), a.rule_count,
                         JList(a.concerns), JList(a.missing))

\* The next risk level up (High stays High).
LevelUp(r) ==
    CASE r = "Low" -> "Medium"
      [] r = "Medium" -> "High"
      [] r = "High" -> "High"

InitScore ==
    /\ EngineInit
    /\ ContractIdle
    /\ GatewayIdle
    /\ ReplayIdle
    /\ ParserIdle
    /\ MatcherIdle
    /\ matches = <<>>
    /\ rules_risk_out = "none"
    /\ risk_a = "Low"
    /\ risk_b = "Low"
    /\ combined = <<"none", "none">>
    /\ score_args \in ScoreArgs
    /\ scores = NoScores
    /\ fn_pc = "start"

\* The score of the arguments, and the scores with the risk level, the rule
\* count, the concern count, the missing-protection count raised by one.
CallScore ==
    /\ fn_pc = "start"
    /\ scores' =
          [at |-> ScoreOf(score_args),
           risk_up |->
              ScoreOf([score_args EXCEPT !.risk_level = LevelUp(@)]),
           rules_up |-> ScoreOf([score_args EXCEPT !.rule_count = @ + 1]),
           concerns_up |-> ScoreOf([score_args EXCEPT !.concerns = @ + 1]),
           missing_up |-> ScoreOf([score_args EXCEPT !.missing = @ + 1])]
    /\ fn_pc' = "scored"
    /\ UNCHANGED <<matches, rules_risk_out, risk_a, risk_b, combined,
                   score_args, parser_vars, matcher_vars, engine_vars, contract_vars, gateway_vars,
                   replay_vars>>

NextScore == CallScore

SpecScore == InitScore /\ [][NextScore]_vars

----------------------------------------------------------------------------
(* Specification applying _parse_json_response *)

\* The elements a reply is made of (see Chars).
ReplyChars == {"tick", " ", "prose", "low_object", "array", "{", "}", "deep"}

ReplyContents == SeqsUpTo(ReplyChars, MaxChars)

\* The two payloads the callers of _parse_json_response pass as fallback.
FallbackPayloads == {ClauseFallbackPayload, SummaryFallbackPayload("Low")}

\* The content between code-fence markers on lines of their own: tag is
\* <<>> for ``` and <<"json">> for ```json.
Fenced(content, tag) ==
    Fence \o tag \o <<" ">> \o content \o <<" ">> \o Fence

InitParse ==
    /\ EngineInit
    /\ ContractIdle
    /\ GatewayIdle
    /\ ReplayIdle
    /\ MatcherIdle
    /\ matches = <<>>
    /\ rules_risk_out = "none"
    /\ risk_a = "Low"
    /\ risk_b = "Low"
    /\ combined = <<"none", "none">>
    /\ score_args = NoScoreArgs
    /\ scores = NoScores
    /\ reply_content \in ReplyContents
    /\ fallback_payload \in FallbackPayloads
    /\ parses = <<>>
    /\ fn_pc = "start"

\* _parse_json_response on the reply as it is, between ``` fences and
\* between ```json fences.
CallParse ==
    /\ fn_pc = "start"
    /\ parses' =
          [plain |-> parse_json_response(reply_content, fallback_payload),
           fenced |->
              parse_json_response(Fenced(reply_content, <<>>),
                                  fallback_payload),
           fenced_json |->
              parse_json_response(Fenced(reply_content, <<"json">>),
                                  fallback_payload)]
    /\ fn_pc' = "parsed"
    /\ UNCHANGED <<matches, rules_risk_out, risk_a, risk_b, combined,
                   score_args, scores, reply_content, fallback_payload,
                   matcher_vars, engine_vars, contract_vars, gateway_vars,
                   replay_vars>>

NextParse == CallParse

SpecParse == InitParse /\ [][NextParse]_vars

----------------------------------------------------------------------------
(* Specification applying evaluate_rules *)

\* The arguments given to evaluate_rules: the clause texts, those of them
\* with NUL characters also without, the empty and a whitespace-only text,
\* and values that are no text.
RuleInputs ==
    ClauseTexts \cup {sanitize_text(t) : t \in ClauseTexts}
    \cup {EmptyText, PlainText(" "), PlainText("renewal"), PyNone, PyInt}

InitMatch ==
    /\ EngineInit
    /\ ContractIdle
    /\ GatewayIdle
    /\ ReplayIdle
    /\ ParserIdle
    /\ matches = <<>>
    /\ rules_risk_out = "none"
    /\ risk_a = "Low"
    /\ risk_b = "Low"
    /\ combined = <<"none", "none">>
    /\ score_args = NoScoreArgs
    /\ scores = NoScores
    /\ clause_inputs \in SeqsUpTo(RuleInputs, MaxInputs)
    /\ findings = <<>>
    /\ fn_pc = "start"

\* One call of evaluate_rules, on the next argument.
CallEvaluate ==
    /\ fn_pc = "start"
    /\ Len(findings) < Len(clause_inputs)
    /\ findings' =
          Append(findings, evaluate_rules(clause_inputs[Len(findings) + 1]))
    /\ UNCHANGED <<matches, rules_risk_out, risk_a, risk_b, combined,
                   score_args, scores, clause_inputs, fn_pc, parser_vars,
                   engine_vars, contract_vars, gateway_vars, replay_vars>>

NextMatch == CallEvaluate

SpecMatch == InitMatch /\ [][NextMatch]_vars

----------------------------------------------------------------------------
(* Properties *)

\* The ordering Low < Medium < High; a string that is no risk level has no
\* place in it.
RiskRank(r) ==
    CASE r = "Low" -> 0
      [] r = "Medium" -> 1
      [] r = "High" -> 2

\* f is the greater of the risk levels a and b.
IsMaxRisk(f, a, b) ==
    /\ {f, a, b} \subseteq RiskLevelSet
    /\ f \in {a, b}
    /\ RiskRank(f) >= RiskRank(a)
    /\ RiskRank(f) >= RiskRank(b)

\* ---- llm_model.py: risk levels of the results (under Spec)

\* C1: in every ClauseResult (normal path, short-clause fallback, failure
\* fallback) and in every ContractSummary the recorded final risk level is
\* the maximum of the recorded model risk level and the recorded rule risk
\* level under Low < Medium < High, for every reply of the service.
C1_FinalIsMaxOfRecorded ==
    /\ \A i \in DOMAIN clause_results :
          IsMaxRisk(clause_results[i].risk_level_final,
                    clause_results[i].risk_level_llm,
                    clause_results[i].risk_level_rules)
    /\ pc = "returned" =>
          IsMaxRisk(report.summary.overall_risk_final,
                    report.summary.overall_risk_llm,
                    report.summary.overall_risk_rules)

\* C2: every risk-level field of a returned Report (clause-level model, rule
\* and final risk; summary-level model, rule and final risk) is one of Low,
\* Medium, High, whatever the service puts in risk_level / overall_risk.
C2_RiskFieldsAreLevels ==
    pc = "returned" =>
        /\ \A i \in DOMAIN report.clauses :
              {report.clauses[i].risk_level_llm,
               report.clauses[i].risk_level_rules,
               report.clauses[i].risk_level_final} \subseteq RiskLevelSet
        /\ {report.summary.overall_risk_llm,
            report.summary.overall_risk_rules,
            report.summary.overall_risk_final} \subseteq RiskLevelSet

\* ---- risk_rules.py: aggregate_risk_from_rules, _combine_risks (SpecRules)

MediumsOf(ms) == {i \in DOMAIN ms : ms[i].risk_level = "Medium"}

RECURSIVE WeightAt(_, _)
WeightAt(ms, S) ==
    IF S = {} THEN 0
    ELSE LET i == CHOOSE j \in S : TRUE
         IN  ms[i].severity_weight + WeightAt(ms, S \ {i})

\* C3: aggregate_risk_from_rules returns Low for the empty list; High if any
\* finding is High; otherwise, over the Medium findings only, Low if there
\* are none, High if they are 3 or more or their weights sum to 5.0 or more,
\* and Medium in every remaining case.
C3_AggregationPolicy ==
    fn_pc \in {"aggregated", "combined"} =>
        LET any_high == \E i \in DOMAIN matches :
                            matches[i].risk_level = "High"
            n == Cardinality(MediumsOf(matches))
            w == WeightAt(matches, MediumsOf(matches))
        IN  /\ matches = <<>> => rules_risk_out = "Low"
            /\ any_high => rules_risk_out = "High"
            /\ (matches # <<>> /\ ~any_high /\ n = 0) => rules_risk_out = "Low"
            /\ (~any_high /\ (n >= 3 \/ w >= 50)) => rules_risk_out = "High"
            /\ (~any_high /\ n \in {1, 2} /\ w < 50) =>
                  rules_risk_out = "Medium"

\* C3, its case: 2 Medium findings and no High one, the weights summing to
\* 5.0, have been aggregated to High.
C3_TwoHeavyMediums ==
    /\ fn_pc = "aggregated"
    /\ \A i \in DOMAIN matches : matches[i].risk_level # "High"
    /\ Cardinality(MediumsOf(matches)) = 2
    /\ WeightAt(matches, MediumsOf(matches)) >= 50
    /\ rules_risk_out = "High"

\* C4: for all risk levels a and b, _combine_risks(a, b) =
\* _combine_risks(b, a) = max(a, b) under Low < Medium < High, so the result
\* is never lower than a and never lower than b.
C4_CombineIsCommutativeMax ==
    fn_pc = "combined" =>
        /\ combined[1] = combined[2]
        /\ IsMaxRisk(combined[1], risk_a, risk_b)

\* C4, its case: a High and a Low verdict have been combined both ways.
C4_HighWithLow ==
    /\ fn_pc = "combined"
    /\ risk_a = "Low"
    /\ risk_b = "High"
    /\ combined = <<"High", "High">>

\* ---- llm_model.py: analyze_contract (under Spec)

\* The text analyze_clause or the loop of analyze_contract records for the
\* clause at position i.
RecordedText(i) ==
    IF paths[i].via = "short" \/ paths[i].raised THEN original_clauses[i]
    ELSE sanitize_text(original_clauses[i])

\* One result per clause analysed so far, in input order, none dropped;
\* no clause stops the loop.
OneResultPerClause ==
    /\ Len(clause_results) = idx - 1
    /\ Len(paths) = idx - 1
    /\ idx - 1 <= Pairs
    /\ \A i \in DOMAIN clause_results :
          /\ clause_results[i].clause_index = i
          /\ clause_results[i].anonymised_text = anonymised_clauses[i]
    /\ pc \in {"returned", "raised"} => Len(clause_results) = Pairs
    /\ pc = "returned" => report.clauses = clause_results

C7_SummaryNeverAborts ==
    /\ pc # "raised"
    /\ pc = "returned" =>
          /\ report.clauses = clause_results
          /\ Len(report.clauses) = Pairs

\* ---- llm_model.py: a failing clause and its siblings (under SpecReplay)

\* C6: when the service fails all retry attempts for one clause, that
\* clause's result is the fallback ClauseResult tagged with the rule-based
\* risk computed for it, and every sibling clause's result is what it is
\* in the analysis where that clause's call succeeded.
C6_FailureLeavesSiblingsAlone ==
    (run = 2 /\ pc = "returned" /\ paths[failing].via = "exhausted") =>
        LET text == sanitize_text(original_clauses[failing])
        IN  /\ clause_results[failing] =
                  create_fallback_clause_analysis(
                      failing, text, anonymised_clauses[failing])
            /\ clause_results[failing].risk_level_rules =
                  aggregate_risk_from_rules(evaluate_rules(text))
            /\ \A j \in DOMAIN clause_results \ {failing} :
                  clause_results[j] = baseline[j]

\* ---- llm_model.py: _chat (under SpecChat)

SameArgs(c, d) == c.system = d.system /\ c.user = d.user

\* C8 as stated: two identical (system, user) calls on one engine return
\* the identical text and the second makes no upstream request.
C8_IdenticalCallsAgree ==
    \A i, j \in DOMAIN calls :
        (i < j /\ SameArgs(calls[i], calls[j])) =>
            /\ calls[j].ret = calls[i].ret
            /\ calls[j].attempts = 0

\* C8, amended: once a call has been answered by the service with a text
\* (or from the cache), every later identical call on the same engine
\* returns the identical text from the cache, with no upstream request.
C8_AnsweredCallsAreReplayed ==
    \A i, j \in DOMAIN calls :
        (i < j /\ SameArgs(calls[i], calls[j])
               /\ (calls[i].replied \/ calls[i].hit)) =>
            /\ calls[j].ret = calls[i].ret
            /\ calls[j].attempts = 0
            /\ calls[j].hit

\* C8, its case: a call answered by the service with a text, then the
\* identical call answered from the cache with that text.
C8_ReplyThenHit ==
    \E i, j \in DOMAIN calls :
        /\ i < j
        /\ SameArgs(calls[i], calls[j])
        /\ calls[i].replied
        /\ ~IsEmptyStr(calls[i].ret)
        /\ calls[j].hit
        /\ calls[j].ret = calls[i].ret

\* C9: a call all of whose attempts fail (rate limit, connection failure,
\* service error, any other exception) makes exactly max_retries upstream
\* attempts, never more, and returns the empty result; no call raises.
C9_ExhaustedCallReturnsEmpty ==
    /\ chat.pc = "loop" => chat.attempt < max_retries
    /\ \A i \in DOMAIN calls :
          /\ ~calls[i].raised
          /\ calls[i].attempts <= max_retries
          /\ (~calls[i].hit /\ ~calls[i].replied) =>
                /\ calls[i].attempts = max_retries
                /\ IsEmptyStr(calls[i].ret)

\* C9, its case: a call whose attempts all raised and that returned empty.
C9_AllAttemptsRaised ==
    \E i \in DOMAIN calls :
        /\ ~calls[i].hit
        /\ ~calls[i].replied
        /\ ~calls[i].empty_reply
        /\ calls[i].attempts = max_retries
        /\ IsEmptyStr(calls[i].ret)

\* C10 as stated: a call that receives an empty (or whitespace-only) reply
\* returns an empty result rather than raising.
C10_EmptyReplyReturnsEmpty ==
    \A i \in DOMAIN calls :
        calls[i].empty_reply => IsEmptyStr(calls[i].ret) /\ ~calls[i].raised

\* C10, amended: an empty (or whitespace-only) reply never makes _chat
\* raise; it counts as a failed attempt, so the call goes on to its next
\* attempt and returns the text of a later reply, or the empty result once
\* max_retries attempts have been made.
C10_EmptyReplyIsFailedAttempt ==
    /\ got_empty => chat.pc = "loop" /\ chat.attempt < max_retries
    /\ \A i \in DOMAIN calls :
          calls[i].empty_reply =>
              /\ ~calls[i].raised
              /\ calls[i].replied \/
                    (calls[i].attempts = max_retries /\ IsEmptyStr(calls[i].ret))
              /\ calls[i].attempts < max_retries => calls[i].replied

\* C10, its case: a call given an empty reply and then a text, which it
\* returned.
C10_EmptyThenText ==
    \E i \in DOMAIN calls :
        /\ calls[i].empty_reply
        /\ calls[i].replied
        /\ ~IsEmptyStr(calls[i].ret)

\* ---- llm_model.py: the short-clause guard of analyze_clause (under Spec)

\* The clause is empty or has fewer than 10 characters after trimming.
BelowMinimumLength(text) == IsFalsyText(text) \/ IsShortText(text)

\* The fields every short-clause result has, and no request in progress
\* while a short clause is the one being analysed.
ShortClauseFixedFields ==
    /\ \A i \in DOMAIN clause_results :
          BelowMinimumLength(original_clauses[i]) =>
              /\ paths[i].via = "short"
              /\ clause_results[i].risk_level_llm = "Medium"
              /\ clause_results[i].final_risk_score = 50
              /\ clause_results[i].plain_english_explanation =
                    ADVISORY_EXPLANATION
    /\ (InClauses /\ BelowMinimumLength(original_clauses[idx])) =>
          chat.pc = "idle"

\* The step that appends the result of a short clause leaves the gateway
\* (its cache, its call in progress) as it was.
ShortClauseStepSkipsGateway ==
    (InClauses /\ BelowMinimumLength(original_clauses[idx])
        /\ idx' = idx + 1) =>
        /\ analysis_cache' = analysis_cache
        /\ chat' = chat
        /\ chat.pc = "idle"

\* C11 as stated: a clause that is empty or shorter than 10 characters after
\* trimming yields the fixed fallback ClauseResult with risk level Medium
\* (final risk Medium, score 50, the advisory text), and no gateway call is
\* made for it.
C11_ShortClauseIsMedium ==
    /\ ShortClauseFixedFields
    /\ \A i \in DOMAIN clause_results :
          BelowMinimumLength(original_clauses[i]) =>
              clause_results[i].risk_level_final = "Medium"

\* C11, amended: such a clause yields the fallback ClauseResult with model
\* risk Medium, score 50 and the advisory text, whose final risk is Medium
\* unless a rule matches the clause, in which case it is the rule-based
\* risk when that is Medium or High; no gateway call is made for it.
C11_ShortClauseFallback ==
    /\ [](/\ ShortClauseFixedFields
          /\ \A i \in DOMAIN clause_results :
                BelowMinimumLength(original_clauses[i]) =>
                    LET r == clause_results[i]
                    IN  /\ r.rule_hits = <<>> => r.risk_level_final = "Medium"
                        /\ r.risk_level_final =
                              IF r.risk_level_rules = "Low" THEN "Medium"
                              ELSE r.risk_level_rules)
    /\ [][ShortClauseStepSkipsGateway]_vars

\* C11, its case: a Report with the 9-character clause "Perpetual", taken
\* by the short-clause guard, whose final risk is High.
C11_ShortPerpetualClause ==
    /\ pc = "returned"
    /\ \E i \in DOMAIN report.clauses :
          /\ original_clauses[i].core = "perpetual"
          /\ paths[i].via = "short"
          /\ report.clauses[i].risk_level_llm = "Medium"
          /\ report.clauses[i].risk_level_final = "High"
          /\ report.clauses[i].final_risk_score = 50

\* ---- llm_model.py: rule findings of a clause (under Spec)

HighRuleIds ==
    {RULES[k].rule_id : k \in {n \in DOMAIN RULES : RULES[n].risk_level = "High"}}

\* A pattern of a High rule is found in the text.
MatchesHighRule(text) ==
    ~IsFalsyText(text) /\ PatternsFound(text) \cap HighRuleIds # {}

\* C12: for any clause whose text matches a High rule the emitted
\* ClauseResult lists at least one High finding and has rule-based risk
\* High, under every behaviour of the service (a reply of any content, an
\* unparseable reply, an empty reply, failure of all retries).
C12_HighRuleAlwaysReported ==
    \A i \in DOMAIN clause_results :
        MatchesHighRule(original_clauses[i]) =>
            /\ \E h \in DOMAIN clause_results[i].rule_hits :
                  clause_results[i].rule_hits[h].risk_level = "High"
            /\ clause_results[i].risk_level_rules = "High"

\* ---- llm_model.py: _calculate_risk_score (under SpecScore)

\* C13: the clause score is monotone non-decreasing in each of the final
\* risk level, the rule match count, the concern count and the
\* missing-protection count, the other arguments held fixed, and lies in
\* [0, 100]; the fallback results carry a score in that range too.
C13_ScoreMonotoneAndBounded ==
    /\ fn_pc = "scored" =>
          /\ scores.at >= 0 /\ scores.at <= 100
          /\ scores.risk_up >= scores.at
          /\ scores.rules_up >= scores.at
          /\ scores.concerns_up >= scores.at
          /\ scores.missing_up >= scores.at
          /\ \A k \in {"risk_up", "rules_up", "concerns_up", "missing_up"} :
                scores[k] >= 0 /\ scores[k] <= 100
    /\ \A t \in ClauseTexts :
          LET s == create_fallback_clause_analysis(1, t, t).final_risk_score
          IN  s >= 0 /\ s <= 100

\* C13, its case: a High clause whose sum passes 100 and is scored 100, as is
\* the same clause with one more concern.
C13_ClampedAtHundred ==
    /\ fn_pc = "scored"
    /\ score_args.risk_level = "High"
    /\ score_args.confidence < 70
    /\ score_args.rule_count = 5
    /\ score_args.concerns = 4
    /\ score_args.missing = 3
    /\ scores.at = 100
    /\ scores.concerns_up = 100

\* base + c + min(3*rules, 15) + min(2*concerns, 10) + min(3*missing, 10),
\* capped at 100.
ScoreFormula(a) ==
    LET base == CASE a.risk_level = "Low" -> 25
                  [] a.risk_level = "Medium" -> 50
                  [] a.risk_level = "High" -> 80
        c == IF a.confidence < 70 THEN 5 ELSE 0
        r == IF 3 * a.rule_count < 15 THEN 3 * a.rule_count ELSE 15
        l == IF 2 * a.concerns < 10 THEN 2 * a.concerns ELSE 10
        m == IF 3 * a.missing < 10 THEN 3 * a.missing ELSE 10
        total == base + c + r + l + m
    IN  IF total < 100 THEN total ELSE 100

\* C14: the score equals min(100, base + c + min(3*ruleMatchCount, 15) +
\* min(2*concernCount, 10) + min(3*missingProtectionCount, 10)) with base
\* 25 / 50 / 80 for Low / Medium / High and c = 5 if the confidence is below
\* 70 and 0 otherwise (a confidence of exactly 70 adds nothing).
C14_ScoreFormula ==
    fn_pc = "scored" => scores.at = ScoreFormula(score_args)

\* C14, its case: a Medium clause scored at a confidence of exactly 70 with
\* one rule match, two concerns and one missing protection: 50 + 3 + 4 + 3.
C14_ConfidenceOfSeventy ==
    /\ fn_pc = "scored"
    /\ score_args = [risk_level |-> "Medium", confidence |-> 70,
                     rule_count |-> 1, concerns |-> 2, missing |-> 1]
    /\ scores.at = 60

----------------------------------------------------------------------------
\* C15, C16, C17: _parse_json_response

\* The content itself begins or ends with a code-fence marker.
HasOwnFence(content) ==
    StartsWith(StripChars(content), Fence)
    \/ EndsWith(StripChars(content), Fence)

FencedParsesAsPlain ==
    /\ parses.fenced = parses.plain
    /\ parses.fenced_json = parses.plain

ObjectsAt(content) == {i \in DOMAIN content : content[i] \in ObjectTexts}

\* The elements that make up prose: words, words with a brace in them,
\* blanks and backticks.
ProseChars == {"prose", "{", "}", " ", "tick"}

\* The reply is one JSON object with prose before it, after it or both.
OneObjectInProse(content) ==
    /\ Cardinality(ObjectsAt(content)) = 1
    /\ \A i \in DOMAIN content \ ObjectsAt(content) : content[i] \in ProseChars
    /\ \E i \in DOMAIN content : content[i] \in {"prose", "{", "}"}

\* No brace of the prose lies outside the object: none opens before it and
\* none closes after it.
BracesInsideObject(content) ==
    \A i \in DOMAIN content, k \in ObjectsAt(content) :
        /\ (i < k => content[i] # "{")
        /\ (i > k => content[i] # "}")

EmbeddedObject(content) ==
    json_loads(<<content[CHOOSE k \in ObjectsAt(content) : TRUE]>>).value

\* C16 as stated: a reply that holds one JSON object with prose before
\* and/or after it parses to that object, not to the fallback payload.
C16_ObjectInProseIsParsed ==
    (fn_pc = "parsed" /\ OneObjectInProse(reply_content))
        => parses.plain = EmbeddedObject(reply_content)

\* C16: a reply that holds one JSON object with prose before and/or after
\* it, the prose having no '{' before the object and no '}' after it, parses
\* to that object (the text from the first '{' to the last '}'), not to the
\* fallback payload.
C16_ObjectInBracelessProseIsParsed ==
    (fn_pc = "parsed" /\ OneObjectInProse(reply_content)
        /\ BracesInsideObject(reply_content))
        => /\ parses.plain = EmbeddedObject(reply_content)
           /\ parses.plain # fallback_payload

\* An object with a sentence before and after it was parsed.
C16_ObjectBetweenSentences ==
    /\ fn_pc = "parsed"
    /\ reply_content = <<"prose", " ", "low_object", "prose">>
    /\ parses.plain = EmbeddedObject(reply_content)

\* The strict parse of the reply fails, and so does the parse of the text
\* from its first '{' to its last '}' (or there is no such text).
FailsBothParses(content) ==
    LET cleaned == RemoveFences(StripChars(content))
    IN  /\ json_loads(cleaned).exc # "none"
        /\ BraceSlice(cleaned).found
              => json_loads(BraceSlice(cleaned).slice).exc # "none"

\* C17: for every reply that is empty, whitespace-only, or fails both the
\* strict parse and the salvage parse, _parse_json_response returns the
\* caller's fallback payload unchanged, and no exception leaves it for any
\* reply text.
C17_FallbackAndNeverRaises ==
    fn_pc = "parsed" =>
        /\ parses.plain.kind \in {"dict", "list"}
        /\ (StripChars(reply_content) = <<>> \/ FailsBothParses(reply_content))
              => parses.plain = fallback_payload

----------------------------------------------------------------------------
\* C18: the anonymisation map of the report

\* C18: the Report returned by analyze_contract carries the anonymisation
\* map (identifier -> redacted entity) that the preprocessing collaborator
\* produced for the contract, unchanged.
C18_ReportCarriesAnonymisationMap ==
    pc = "returned" => report.anonymisation_map = EntityMap(original_clauses)

----------------------------------------------------------------------------
\* C19: evaluate_rules

\* The input is no text, or a text that is empty or whitespace only.
NoTextToMatch(value) ==
    ~IsStr(value) \/ (value.core \in {"", " "} /\ ~value.nul /\ ~value.uni)

\* The finding that carries the fields of a catalog rule.
FindingOf(rule) ==
    [rule_id |-> rule.rule_id, description |-> rule.description,
     risk_level |-> rule.risk_level, category |-> rule.category,
     severity_weight |-> rule.severity_weight]

\* out holds one finding for each catalog rule whose pattern is found in the
\* text, carrying the rule's fields, and nothing else.
OneFindingPerMatchingRule(text, out) ==
    /\ \A r \in DOMAIN RULES :
          RULES[r].rule_id \in PatternsFound(text)
             => Cardinality({i \in DOMAIN out : out[i] = FindingOf(RULES[r])})
                    = 1
    /\ \A i \in DOMAIN out :
          \E r \in DOMAIN RULES :
             /\ out[i] = FindingOf(RULES[r])
             /\ RULES[r].rule_id \in PatternsFound(text)

\* C19: for any clause text evaluate_rules returns exactly one finding for
\* each catalog rule whose pattern matches the text, carrying that rule's
\* identifier, description, risk level, category and severity weight, and no
\* other finding; for empty, whitespace-only or non-text input it returns
\* the empty list.
C19_OneFindingPerMatchingRule ==
    \A k \in DOMAIN findings :
        IF NoTextToMatch(clause_inputs[k])
        THEN findings[k] = <<>>
        ELSE OneFindingPerMatchingRule(clause_inputs[k], findings[k])

\* A clause matching two rules got its two findings, and None got none.
C19_TwoRulesThenNone ==
    /\ Len(findings) = 2
    /\ clause_inputs = <<PlainText("renewal_fees"), PyNone>>
    /\ Len(findings[1]) = 2
    /\ findings[2] = <<>>

----------------------------------------------------------------------------
\* C20: the completeness score of the summary

RECURSIVE SumPoints(_)
SumPoints(points) ==
    IF points = <<>> THEN 0 ELSE Head(points) + SumPoints(Tail(points))

\* The score is a number of 0..100 and the sum of the ten points of the
\* breakdown that came with it.
ScoreIsSumOfBreakdown(summary) ==
    /\ summary.contract_completeness_score.t = "num"
    /\ summary.contract_completeness_score.n \in 0..100
    /\ summary.built_from_breakdown.t = "dict"
    /\ Len(summary.built_from_breakdown.points) = 10
    /\ summary.contract_completeness_score.n
          = SumPoints(summary.built_from_breakdown.points)

\* C20: every ContractSummary has a completeness score within 0..100 that
\* equals the sum of its ten-dimension breakdown, whether it was built from
\* the fixed fallback payload or from a reply of the service.
C20_CompletenessIsSumOfBreakdown ==
    pc = "returned" => ScoreIsSumOfBreakdown(report.summary)

----------------------------------------------------------------------------
\* C21: the document-wide rule verdict

\* The findings of the clauses i..n of the contract, one clause after the
\* other.
RECURSIVE FindingsFrom(_)
FindingsFrom(i) ==
    IF i > Len(original_clauses) THEN <<>>
    ELSE evaluate_rules(original_clauses[i]) \o FindingsFrom(i + 1)

\* C21: the document-wide rule verdict of a report is
\* aggregate_risk_from_rules applied to the findings of all clauses taken
\* together, not the maximum of the per-clause verdicts.
C21_VerdictAggregatesAllFindings ==
    pc = "returned" =>
        report.summary.overall_risk_rules
            = aggregate_risk_from_rules(FindingsFrom(1))

\* A report whose clauses all have rule-based risk Medium and whose
\* document-wide rule verdict is High.
C21_MediumClausesHighDocument ==
    /\ pc = "returned"
    /\ Len(report.clauses) = 2
    /\ \A i \in DOMAIN report.clauses :
          report.clauses[i].risk_level_rules = "Medium"
    /\ report.summary.overall_risk_rules = "High"

(* C22: within one _chat call, the wait after failed attempt k (0-based)   *)
(* that is not the last one is retry_delay * 2^k when the failure is rate  *)
(* limiting and retry_delay for every other kind of failure; no wait       *)
(* follows the last attempt.                                               *)
C22_BackoffByFailureKind ==
    \A i \in DOMAIN requests :
       LET r == requests[i]
       IN  r.exc # "none" =>
              r.wait = IF r.attempt = max_retries - 1 THEN 0
                       ELSE IF r.exc = "RateLimitError"
                            THEN retry_delay * Pow2(r.attempt)
                            ELSE retry_delay

\* A call whose second attempt was rate limited and waited twice the delay,
\* whose first attempt was an empty reply, and whose last attempt failed.
C22_RateLimitedSecondAttempt ==
    /\ Len(requests) = max_retries
    /\ requests[1].exc = "ValueError"
    /\ requests[1].wait = retry_delay
    /\ requests[2].exc = "RateLimitError"
    /\ requests[2].wait = 2 * retry_delay
    /\ requests[3].exc # "none"
    /\ requests[3].wait = 0

UnicodeErrors == {"UnicodeEncodeError", "UnicodeDecodeError"}

\* The prompt with every character above 127 removed from its argument.
ReducedPrompt(prompt) == [prompt EXCEPT !.arg.uni = FALSE]

(* C23: an encoding error does not abort the _chat call: the call goes on  *)
(* to its next attempt while attempts are left, and every later attempt of *)
(* the call sends both prompts reduced to their ASCII characters; the call *)
(* never makes more than max_retries attempts.                             *)
C23_EncodingErrorReducesPrompts ==
    /\ Len(requests) <= max_retries
    /\ \A i \in DOMAIN requests :
          requests[i].exc \in UnicodeErrors =>
             /\ (i = Len(requests) /\ i < max_retries) => chat.pc = "loop"
             /\ \A j \in DOMAIN requests :
                   j > i =>
                      /\ requests[j].system = ReducedPrompt(requests[i].system)
                      /\ requests[j].user = ReducedPrompt(requests[i].user)

\* A call whose first attempt, sent with non-ASCII characters in the user
\* prompt, met an encoding error and whose two later attempts were sent.
C23_ReducedPromptsSentTwice ==
    /\ Len(requests) = max_retries
    /\ requests[1].exc \in UnicodeErrors
    /\ requests[1].user.arg.uni
    /\ ~requests[2].user.arg.uni
    /\ ~requests[3].user.arg.uni

(* C24: on one engine instance the model-derived fields of a clause result *)
(* come from a reply to the prompt of that clause's own text: a clause     *)
(* answered from the cache has the text of an earlier clause of the        *)
(* contract that the service was asked about.                              *)
C24_CachedReplyIsOfOwnText ==
    \A i \in DOMAIN paths :
       paths[i].via = "cached" =>
          \E j \in 1..(i - 1) :
             /\ paths[j].via = "replied"
             /\ sanitize_text(original_clauses[j])
                   = sanitize_text(original_clauses[i])

(* C25: the language parameter selects the language instruction of the     *)
(* system prompt, and the reply a clause or summary analysis carries was   *)
(* obtained under the instruction of its own language: a call answered     *)
(* from the cache follows a call with the same system prompt and the same  *)
(* user prompt that the service answered.                                  *)
C25_ReplyObtainedUnderOwnLanguage ==
    \A i \in DOMAIN calls :
       calls[i].hit =>
          \E j \in 1..(i - 1) :
             /\ calls[j].replied
             /\ calls[j].system = calls[i].system
             /\ calls[j].user = calls[i].user

(* C26: when the reply of a clause parses to an object whose risk_level is *)
(* "High", the clause result in the report has final risk High whatever    *)
(* the other fields of the reply hold.  (Every reply of SpecFields is such *)
(* an object: a clause that was answered, by the service or from the       *)
(* cache, was answered with risk_level "High".)                            *)
C26_HighReplyGivesHighFinal ==
    pc = "returned" =>
       \A i \in DOMAIN report.clauses :
          paths[i].via \in {"replied", "cached"} =>
             report.clauses[i].risk_level_final = "High"

(* C27: in every clause result of a report, the fallback results included, *)
(* the score is at least the base score of the result's final risk level   *)
(* (Low 25, Medium 50, High 80).                                           *)
C27_ScoreAtLeastBase ==
    pc = "returned" =>
       \A i \in DOMAIN report.clauses :
          report.clauses[i].final_risk_score
             >= BaseScore(report.clauses[i].risk_level_final)

(* C28: the cache of an engine instance holds only non-empty reply texts:  *)
(* no stored text is empty, and no _chat call answered from the cache      *)
(* returns the empty result.                                               *)
C28_CacheHoldsNoEmptyText ==
    /\ \A k \in DOMAIN analysis_cache : ~IsEmptyStr(analysis_cache[k])
    /\ \A i \in DOMAIN calls : calls[i].hit => ~IsEmptyStr(calls[i].ret)

(* C29: in every report the rule-based risk of the summary is never lower  *)
(* than the rule-based risk recorded in any of its clause results.         *)
C29_SummaryRulesRiskCoversClauses ==
    pc = "returned" =>
       \A i \in DOMAIN report.clauses :
          RiskRank(report.summary.overall_risk_rules)
             >= RiskRank(report.clauses[i].risk_level_rules)

\* What _parse_json_response handed back is a value (no exception left it).
IsReturnedValue(parsed) == parsed.kind \in {"dict", "list"}

(* C30: whatever _parse_json_response returns, for the reply as it is or   *)
(* between fences, is a key-value object (the parsed object or the         *)
(* fallback payload), never an array, a number, a string, a boolean or     *)
(* null.                                                                   *)
C30_ParseReturnsObject ==
    fn_pc = "parsed" =>
       \A form \in {"plain", "fenced", "fenced_json"} :
          IsReturnedValue(parses[form]) => parses[form].kind = "dict"

=============================================================================
